---- MODULE Spec2Model ----
(***************************************************************************)
(* Model of package atmodem (mdlayher/atmodem): the valueParser helper     *)
(* and the Info / Status response parsers of Device.                       *)
(*                                                                         *)
(* A Go string is a sequence of one-character strings, so that             *)
(* strings.Fields, strings.HasSuffix, strings.Join, strings.SplitN,        *)
(* strings.TrimSpace and strconv.Atoi are computed on characters.          *)
(* A Go []string is a sequence of such strings.                            *)
(***************************************************************************)
EXTENDS Integers, Sequences, FiniteSets, TLC

(***************************************************************************)
(* Bounds of the model.                                                    *)
(***************************************************************************)
\* Longest response (number of lines) the transport returns.
MaxLines == 3

\* Most extraction calls made on one valueParser.
MaxCalls == 3

(***************************************************************************)
(* The string functions of the Go standard library the package calls.      *)
(***************************************************************************)
\* unicode.IsSpace on the characters that occur in responses.
IsSpace(c) == c \in {" ", "\t"}

\* s[from:] in Go slicing, from counted from 1.
Drop(s, n) == SubSeq(s, n + 1, Len(s))

\* s[:n] in Go slicing.
Take(s, n) == SubSeq(s, 1, n)

\* strings.HasSuffix(s, suffix).
HasSuffix(s, suffix) ==
    /\ Len(s) >= Len(suffix)
    /\ SubSeq(s, Len(s) - Len(suffix) + 1, Len(s)) = suffix

RECURSIVE TrimLeft(_)
\* strings.TrimLeftFunc(s, unicode.IsSpace).
TrimLeft(s) ==
    IF s # <<>> /\ IsSpace(Head(s)) THEN TrimLeft(Tail(s)) ELSE s

RECURSIVE TrimRight(_)
\* strings.TrimRightFunc(s, unicode.IsSpace).
TrimRight(s) ==
    IF s # <<>> /\ IsSpace(s[Len(s)]) THEN TrimRight(Take(s, Len(s) - 1)) ELSE s

\* strings.TrimSpace(s).
TrimSpace(s) == TrimRight(TrimLeft(s))

RECURSIVE FieldsFrom(_, _, _)
\* The scan of strings.Fields: cur is the field being read, acc the fields
\* already complete.
FieldsFrom(s, cur, acc) ==
    IF s = <<>>
    THEN IF cur = <<>> THEN acc ELSE Append(acc, cur)
    ELSE IF IsSpace(Head(s))
         THEN FieldsFrom(Tail(s), <<>>, IF cur = <<>> THEN acc ELSE Append(acc, cur))
         ELSE FieldsFrom(Tail(s), Append(cur, Head(s)), acc)

\* strings.Fields(s): the maximal runs of non-space characters of s.
Fields(s) == FieldsFrom(s, <<>>, <<>>)

RECURSIVE Join(_, _)
\* strings.Join(ss, sep).
Join(ss, sep) ==
    IF ss = <<>> THEN <<>>
    ELSE IF Len(ss) = 1 THEN ss[1]
    ELSE ss[1] \o sep \o Join(Tail(ss), sep)

\* strings.IndexByte(s, c) counted from 1; 0 when c does not occur in s.
Index(s, c) ==
    IF \E i \in 1..Len(s) : s[i] = c
    THEN CHOOSE i \in 1..Len(s) : s[i] = c /\ \A j \in 1..(i - 1) : s[j] # c
    ELSE 0

RECURSIVE Split(_, _)
\* strings.Split(s, sep) for a one-character sep: s cut at every sep.
Split(s, sep) ==
    IF Index(s, sep) = 0 THEN <<s>>
    ELSE <<Take(s, Index(s, sep) - 1)>> \o Split(Drop(s, Index(s, sep)), sep)

\* SplitN2 by strings.Split: s cut at every sep.
SplitN2_All(s, sep) == Split(s, sep)

\* strings.SplitN(s, sep, 2) for a one-character sep: s cut at its first sep.
SplitN2(s, sep) ==
    IF Index(s, sep) = 0 THEN <<s>>
    ELSE <<Take(s, Index(s, sep) - 1), Drop(s, Index(s, sep))>>

\* The decimal digits and their values.
Digits == {"0", "1", "2", "3", "4", "5", "6", "7", "8", "9"}

DigitVal(c) ==
    CASE c = "0" -> 0 [] c = "1" -> 1 [] c = "2" -> 2 [] c = "3" -> 3
      [] c = "4" -> 4 [] c = "5" -> 5 [] c = "6" -> 6 [] c = "7" -> 7
      [] c = "8" -> 8 [] c = "9" -> 9

RECURSIVE DecVal(_)
\* The value of a string of decimal digits.
DecVal(s) ==
    IF s = <<>> THEN 0 ELSE 10 * DecVal(Take(s, Len(s) - 1)) + DigitVal(s[Len(s)])

\* The part of a number after its optional sign.
Unsigned(s) == IF s # <<>> /\ s[1] \in {"+", "-"} THEN Tail(s) ELSE s

\* The errors of this model are records; nil is NoErr.
NoErr == [kind |-> "nil"]

\* *strconv.NumError{Func: fn, Num: s, Err: strconv.ErrSyntax}.
NumError(fn, s) == [kind |-> "NumError", func |-> fn, num |-> s, err |-> "ErrSyntax"]

\* strconv.Atoi(s): an optional sign and one or more decimal digits. The
\* responses of the model hold numbers of at most 9 digits, which fit an int.
Atoi(s) ==
    IF Unsigned(s) # <<>> /\ \A i \in 1..Len(Unsigned(s)) : Unsigned(s)[i] \in Digits
    THEN [v |-> IF s[1] = "-" THEN 0 - DecVal(Unsigned(s)) ELSE DecVal(Unsigned(s)),
          err |-> NoErr]
    ELSE [v |-> 0, err |-> NumError("Atoi", s)]

(***************************************************************************)
(* float64 values are decimal fractions m / 10^e in lowest form (the       *)
(* responses hold short decimal numbers only).                             *)
(***************************************************************************)
RECURSIVE StripZeros(_)
\* The fraction digits without their trailing zeros.
StripZeros(s) ==
    IF s # <<>> /\ s[Len(s)] = "0" THEN StripZeros(Take(s, Len(s) - 1)) ELSE s

\* The float64 zero value.
ZeroFloat == [m |-> 0, e |-> 0]

\* The float64 that the digits ip before the point and fp after it denote
\* (fp without trailing zeros), negated when neg.
FloatOf(neg, ip, fp) ==
    [m |-> IF neg THEN 0 - DecVal(ip \o fp) ELSE DecVal(ip \o fp),
     e |-> IF DecVal(ip \o fp) = 0 THEN 0 ELSE Len(fp)]

\* ParseFloat on the unsigned part u of s, whose first point is at dot.
ParseUnsigned(s, u, dot) ==
    IF /\ \A i \in 1..Len(u) : u[i] \in Digits \/ i = dot
       /\ Len(u) > (IF dot = 0 THEN 0 ELSE 1)
    THEN [v |-> FloatOf(s[1] = "-",
                        IF dot = 0 THEN u ELSE Take(u, dot - 1),
                        IF dot = 0 THEN <<>> ELSE StripZeros(Drop(u, dot))),
          err |-> NoErr]
    ELSE [v |-> ZeroFloat, err |-> NumError("ParseFloat", s)]

\* strconv.ParseFloat(s, 64) on decimal notation: an optional sign, digits,
\* and at most one point with a digit on at least one side of it.
ParseFloat(s) == ParseUnsigned(s, Unsigned(s), Index(Unsigned(s), "."))

(***************************************************************************)
(* valueParser (valueparser.go). A *valueParser is the record              *)
(* [ss, err]; a method returns the parser after the call and its result.   *)
(***************************************************************************)
\* errors.New("atmodem: no key/value pair values provided for parsing").
ErrNoValues == [kind |-> "no key/value pair values provided for parsing"]

\* The nil *valueParser.
NilVP == [ss |-> <<>>, err |-> [kind |-> "nil pointer"]]

\* newValueParser with the bounds check off by one.
newValueParser_MinTwo(ss) ==
    IF Len(ss) <= 1
    THEN [vp |-> NilVP, err |-> ErrNoValues]
    ELSE [vp |-> [ss |-> [i \in 1..Len(ss) |-> TrimSpace(ss[i])], err |-> NoErr],
          err |-> NoErr]

\* newValueParser(ss): an error for an empty slice, else a parser over the
\* elements of ss, each trimmed of surrounding space.
newValueParser(ss) ==
    IF Len(ss) = 0
    THEN [vp |-> NilVP, err |-> ErrNoValues]
    ELSE [vp |-> [ss |-> [i \in 1..Len(ss) |-> TrimSpace(ss[i])], err |-> NoErr],
          err |-> NoErr]

\* (*valueParser).Err.
valueParser_Err(vp) == vp.err

\* The end of Int and Float64: r is the result of the conversion of the
\* first element; its error is kept in vp.err, and the zero value returned.
Converted(vp, r, zero) ==
    IF r.err # NoErr
    THEN [vp |-> [vp EXCEPT !.err = r.err], v |-> zero]
    ELSE [vp |-> vp, v |-> r.v]

\* (*valueParser).Int: 0 once an error is set; else the first element parsed
\* by strconv.Atoi, whose error is kept.
valueParser_Int(vp) ==
    IF vp.err # NoErr
    THEN [vp |-> vp, v |-> 0]
    ELSE Converted(vp, Atoi(vp.ss[1]), 0)

\* (*valueParser).Float64: as Int, with strconv.ParseFloat.
valueParser_Float64(vp) ==
    IF vp.err # NoErr
    THEN [vp |-> vp, v |-> ZeroFloat]
    ELSE Converted(vp, ParseFloat(vp.ss[1]), ZeroFloat)

\* String without the check of vp.err.
valueParser_String_Unchecked(vp) == [vp |-> vp, v |-> Join(vp.ss, <<" ">>)]

\* (*valueParser).String: "" once an error is set; else the elements joined
\* by single spaces.
valueParser_String(vp) ==
    IF vp.err # NoErr
    THEN [vp |-> vp, v |-> <<>>]
    ELSE [vp |-> vp, v |-> Join(vp.ss, <<" ">>)]

(***************************************************************************)
(* The keys of the Status table (Status.parse).                            *)
(***************************************************************************)
KCurrentTime ==
    <<"C","u","r","r","e","n","t"," ","T","i","m","e",":">>

KTemperature ==
    <<"T","e","m","p","e","r","a","t","u","r","e",":">>

KResetCounter ==
    <<"R","e","s","e","t"," ","C","o","u","n","t","e","r",":">>

KMode ==
    <<"M","o","d","e",":">>

KSystemMode ==
    <<"S","y","s","t","e","m"," ","m","o","d","e",":">>

KPSState ==
    <<"P","S"," ","s","t","a","t","e",":">>

KLTEBand ==
    <<"L","T","E"," ","b","a","n","d",":">>

KLTEBw ==
    <<"L","T","E"," ","b","w",":">>

KLTERxChan ==
    <<"L","T","E"," ","R","x"," ","c","h","a","n",":">>

KLTETxChan ==
    <<"L","T","E"," ","T","x"," ","c","h","a","n",":">>

KLTECAState ==
    <<"L","T","E"," ","C","A"," ","s","t","a","t","e",":">>

KEMMState ==
    <<"E","M","M"," ","s","t","a","t","e",":">>

KRRCState ==
    <<"R","R","C"," ","s","t","a","t","e",":">>

KIMSRegState ==
    <<"I","M","S"," ","r","e","g"," ","s","t","a","t","e",":">>

KPCCRxMRSSI ==
    <<"P","C","C"," ","R","x","M"," ","R","S","S","I",":">>

KPCCRxDRSSI ==
    <<"P","C","C"," ","R","x","D"," ","R","S","S","I",":">>

KRSRP ==
    <<"R","S","R","P"," ","(","d","B","m",")",":">>

KTxPower ==
    <<"T","x"," ","P","o","w","e","r",":">>

KTAC ==
    <<"T","A","C",":">>

KCellID ==
    <<"C","e","l","l"," ","I","D",":">>

KRSRQ ==
    <<"R","S","R","Q"," ","(","d","B",")",":">>

KSINR ==
    <<"S","I","N","R"," ","(","d","B",")",":">>


\* The keys of the Info table (parseInfo).
KManufacturer ==
    <<"M","a","n","u","f","a","c","t","u","r","e","r">>

KModel ==
    <<"M","o","d","e","l">>

KRevision ==
    <<"R","e","v","i","s","i","o","n">>

KIMEI ==
    <<"I","M","E","I">>

KMEID ==
    <<"M","E","I","D">>

KIMEISV ==
    <<"I","M","E","I"," ","S","V">>

KFSN ==
    <<"F","S","N">>

KGCAP ==
    <<"+","G","C","A","P">>

(***************************************************************************)
(* Status and Status.parse (device.go).                                    *)
(***************************************************************************)
\* time.Second, with durations counted in whole seconds: every duration the
\* package builds is a multiple of time.Second.
Second == 1

\* time.Minute.
Minute == 60 * Second

\* time.Hour.
Hour == 60 * Minute

\* statusState: the zero value, rxmLast and rxdLast.
stateUnset == 0

rxmLast == 1

rxdLast == 2

\* The zero value of Status (var s Status).
ZeroStatus ==
    [CurrentTime |-> 0, Temperature |-> 0, ResetCounter |-> 0,
     Mode |-> <<>>, SystemMode |-> <<>>, PSState |-> <<>>, LTEBand |-> <<>>,
     LTEBandwidthMHz |-> ZeroFloat,
     LTEReceiveChannel |-> 0, LTETransmitChannel |-> 0,
     LTECAState |-> <<>>, EMMState |-> <<>>, RRCState |-> <<>>, IMSRegState |-> <<>>,
     PCCRXMRSSI |-> 0, RSRPRXMdBm |-> 0, PCCRXDRSSI |-> 0, RSRPRXDdBm |-> 0,
     TransmitPower |-> 0, TAC |-> <<>>, CellID |-> <<>>,
     RSRQdB |-> ZeroFloat, SINRdB |-> ZeroFloat,
     state |-> stateUnset]

\* fmt.Errorf("atmodem: cannot determine which RSRP dBm value is being parsed").
ErrAmbiguousRSRP == [kind |-> "cannot determine which RSRP dBm value is being parsed"]

\* The keys the switch of Status.parse has a case for.
StatusKeys ==
    {KCurrentTime, KTemperature, KResetCounter, KMode, KSystemMode, KPSState,
     KLTEBand, KLTEBw, KLTERxChan, KLTETxChan, KLTECAState, KEMMState, KRRCState,
     KIMSRegState, KPCCRxMRSSI, KPCCRxDRSSI, KRSRP, KTxPower, KTAC, KCellID,
     KRSRQ, KSINR}

\* s.f = r.v, for r the result of a method of the valueParser.
Assign(s, f, r) == [s |-> [s EXCEPT ![f] = r.v], vp |-> r.vp, err |-> NoErr]

\* s.CurrentTime = time.Duration(r.v) * time.Second.
AssignSeconds(s, f, r) ==
    [s |-> [s EXCEPT ![f] = r.v * Second], vp |-> r.vp, err |-> NoErr]

\* s.f = r.v; s.state = st.
AssignState(s, f, r, st) ==
    [s |-> [s EXCEPT ![f] = r.v, !.state = st], vp |-> r.vp, err |-> NoErr]

\* ParseRSRP with the two fields exchanged.
ParseRSRP_Swapped(s, vp) ==
    CASE s.state = rxmLast -> Assign(s, "RSRPRXDdBm", valueParser_Int(vp))
      [] s.state = rxdLast -> Assign(s, "RSRPRXMdBm", valueParser_Int(vp))
      [] OTHER -> [s |-> s, vp |-> vp, err |-> ErrAmbiguousRSRP]

\* ParseRSRP without the default case: an unset state is taken as rxmLast.
ParseRSRP_NoDefault(s, vp) ==
    CASE s.state = rxdLast -> Assign(s, "RSRPRXDdBm", valueParser_Int(vp))
      [] OTHER -> Assign(s, "RSRPRXMdBm", valueParser_Int(vp))

\* ParseRSRP that uses the state up: it is unset again after the assignment.
ParseRSRP_Consumes(s, vp) ==
    CASE s.state = rxmLast -> AssignState(s, "RSRPRXMdBm", valueParser_Int(vp), stateUnset)
      [] s.state = rxdLast -> AssignState(s, "RSRPRXDdBm", valueParser_Int(vp), stateUnset)
      [] OTHER -> [s |-> s, vp |-> vp, err |-> ErrAmbiguousRSRP]

\* case "RSRP (dBm):" of Status.parse: the field is chosen by s.state, and
\* parse returns at once when the state is neither rxmLast nor rxdLast.
ParseRSRP(s, vp) ==
    CASE s.state = rxmLast -> Assign(s, "RSRPRXMdBm", valueParser_Int(vp))
      [] s.state = rxdLast -> Assign(s, "RSRPRXDdBm", valueParser_Int(vp))
      [] OTHER -> [s |-> s, vp |-> vp, err |-> ErrAmbiguousRSRP]

\* switch k of Status.parse: the Status and the valueParser after the case
\* of key k ran, and the error the case returned with.
ParseSwitch(s, k, vp) ==
    CASE k = KCurrentTime -> AssignSeconds(s, "CurrentTime", valueParser_Int(vp))
      [] k = KTemperature -> Assign(s, "Temperature", valueParser_Int(vp))
      [] k = KResetCounter -> Assign(s, "ResetCounter", valueParser_Int(vp))
      [] k = KMode -> Assign(s, "Mode", valueParser_String(vp))
      [] k = KSystemMode -> Assign(s, "SystemMode", valueParser_String(vp))
      [] k = KPSState -> Assign(s, "PSState", valueParser_String(vp))
      [] k = KLTEBand -> Assign(s, "LTEBand", valueParser_String(vp))
      [] k = KLTEBw -> Assign(s, "LTEBandwidthMHz", valueParser_Float64(vp))
      [] k = KLTERxChan -> Assign(s, "LTEReceiveChannel", valueParser_Int(vp))
      [] k = KLTETxChan -> Assign(s, "LTETransmitChannel", valueParser_Int(vp))
      [] k = KLTECAState -> Assign(s, "LTECAState", valueParser_String(vp))
      [] k = KEMMState -> Assign(s, "EMMState", valueParser_String(vp))
      [] k = KRRCState -> Assign(s, "RRCState", valueParser_String(vp))
      [] k = KIMSRegState -> Assign(s, "IMSRegState", valueParser_String(vp))
      [] k = KPCCRxMRSSI -> AssignState(s, "PCCRXMRSSI", valueParser_Int(vp), rxmLast)
      [] k = KPCCRxDRSSI -> AssignState(s, "PCCRXDRSSI", valueParser_Int(vp), rxdLast)
      [] k = KRSRP -> ParseRSRP(s, vp)
      [] k = KTxPower -> Assign(s, "TransmitPower", valueParser_Int(vp))
      [] k = KTAC -> Assign(s, "TAC", valueParser_String(vp))
      [] k = KCellID -> Assign(s, "CellID", valueParser_String(vp))
      [] k = KRSRQ -> Assign(s, "RSRQdB", valueParser_Float64(vp))
      [] k = KSINR -> Assign(s, "SINRdB", valueParser_Float64(vp))
      [] OTHER -> [s |-> s, vp |-> vp, err |-> NoErr]

\* if err := vp.Err(); err != nil { return err }, after the switch left r.
CheckErr(r) ==
    IF r.err # NoErr
    THEN [s |-> r.s, err |-> r.err]
    ELSE [s |-> r.s, err |-> valueParser_Err(r.vp)]

\* WithParser with a default case that returns an error.
WithParser_RejectUnknown(s, k, c) ==
    IF c.err # NoErr
    THEN [s |-> s, err |-> c.err]
    ELSE IF k \notin StatusKeys
         THEN [s |-> s, err |-> [kind |-> "unknown key"]]
         ELSE CheckErr(ParseSwitch(s, k, c.vp))

\* The body of the loop of Status.parse from the result c of newValueParser
\* on: its error returns, else the switch on key k runs.
WithParser(s, k, c) ==
    IF c.err # NoErr
    THEN [s |-> s, err |-> c.err]
    ELSE CheckErr(ParseSwitch(s, k, c.vp))

\* The body of the loop of Status.parse for a key that ends at ss[i]: the key
\* is ss[:i] joined by spaces, the values are ss[i:] (i already advanced).
\* The result is the Status after it and the error parse returns with, or nil.
ParsePair(s, ss, i) ==
    WithParser(s, Join(Take(ss, i), <<" ">>), newValueParser(Drop(ss, i)))

RECURSIVE ParseFrom(_, _, _)
\* The loop of Status.parse after the pair at ss[i] gave r: an error returns,
\* else the loop goes on after i.
ParseOn(r, ss, i) == IF r.err # NoErr THEN r ELSE ParseFrom(r.s, ss, i + 1)

\* for i := range ss of Status.parse, from index i on: every element that
\* ends in a colon is handled by ParsePair, and the first error returns.
ParseFrom(s, ss, i) ==
    IF i > Len(ss) THEN [s |-> s, err |-> NoErr]
    ELSE IF ~HasSuffix(ss[i], <<":">>) THEN ParseFrom(s, ss, i + 1)
    ELSE ParseOn(ParsePair(s, ss, i), ss, i)

\* (*Status).parse(ss).
Status_parse(s, ss) == ParseFrom(s, ss, 1)

\* Indices that stops after the second key.
Indices_FirstTwo(ss) ==
    Take(SelectSeq([i \in 1..Len(ss) |-> i], LAMBDA i : HasSuffix(ss[i], <<":">>)),
         IF Len(SelectSeq([i \in 1..Len(ss) |-> i],
                          LAMBDA i : HasSuffix(ss[i], <<":">>))) > 2
         THEN 2
         ELSE Len(SelectSeq([i \in 1..Len(ss) |-> i],
                            LAMBDA i : HasSuffix(ss[i], <<":">>))))

\* The indices of parseStatus: the positions of the elements of ss that end
\* in a colon, in order.
Indices(ss) == SelectSeq([i \in 1..Len(ss) |-> i], LAMBDA i : HasSuffix(ss[i], <<":">>))

\* fmt.Errorf("atmodem: unexpected status response line with %d key/value
\* pairs %q", len(indices), l).
ErrStatusLine(n, l) ==
    [kind |-> "unexpected status response line", pairs |-> n, line |-> l]

\* errors.New("atmodem: empty status response from modem").
ErrEmptyStatus == [kind |-> "empty status response from modem"]

\* errors.New("atmodem: empty info response from modem").
ErrEmptyInfo == [kind |-> "empty info response from modem"]

(***************************************************************************)
(* Info and parseInfo (device.go).                                         *)
(***************************************************************************)
\* The zero value of Info (var i Info); the nil slice GCAP is <<>>.
ZeroInfo ==
    [Manufacturer |-> <<>>, Model |-> <<>>, Revision |-> <<>>, IMEI |-> <<>>,
     MEID |-> <<>>, FSN |-> <<>>, IMEISV |-> 0, GCAP |-> <<>>]

\* fmt.Errorf("atmodem: malformed info line: %q", l).
ErrMalformedInfo(l) == [kind |-> "malformed info line", line |-> l]

\* i.f = r.v, for r the result of a method of the valueParser.
AssignInfo(i, f, r) == [i |-> [i EXCEPT ![f] = r.v], vp |-> r.vp]

\* i.GCAP = strings.Split(r.v, ",").
AssignList(i, f, r) == [i |-> [i EXCEPT ![f] = Split(r.v, ",")], vp |-> r.vp]

\* switch ss[0] of parseInfo: the Info and the valueParser after the case of
\* key k ran.
InfoSwitch(i, k, vp) ==
    CASE k = KManufacturer -> AssignInfo(i, "Manufacturer", valueParser_String(vp))
      [] k = KModel -> AssignInfo(i, "Model", valueParser_String(vp))
      [] k = KRevision -> AssignInfo(i, "Revision", valueParser_String(vp))
      [] k = KIMEI -> AssignInfo(i, "IMEI", valueParser_String(vp))
      [] k = KMEID -> AssignInfo(i, "MEID", valueParser_String(vp))
      [] k = KIMEISV -> AssignInfo(i, "IMEISV", valueParser_Int(vp))
      [] k = KFSN -> AssignInfo(i, "FSN", valueParser_String(vp))
      [] k = KGCAP -> AssignList(i, "GCAP", valueParser_String(vp))
      [] OTHER -> [i |-> i, vp |-> vp]

\* if err := vp.Err(); err != nil { return nil, err }, after the switch left r.
CheckInfoErr(r) == [i |-> r.i, err |-> valueParser_Err(r.vp)]

\* The body of the loop of parseInfo from the result c of newValueParser on.
InfoWithParser(i, k, c) ==
    IF c.err # NoErr
    THEN [i |-> i, err |-> c.err]
    ELSE CheckInfoErr(InfoSwitch(i, k, c.vp))

\* The body of the loop of parseInfo for line l, split into ss: the Info
\* after it and the error parseInfo returns with, or nil.
InfoPair(i, l, ss) ==
    IF Len(ss) # 2
    THEN [i |-> i, err |-> ErrMalformedInfo(l)]
    ELSE InfoWithParser(i, ss[1], newValueParser(<<ss[2]>>))

\* ss := strings.SplitN(l, ":", 2) and the rest of the loop body.
ParseInfoLine(i, l) == InfoPair(i, l, SplitN2(l, ":"))

(***************************************************************************)
(* Response lines and values: the samples of device_test.go and            *)
(* valueparser_test.go, and lines that take the other branches.            *)
(***************************************************************************)
LHeader ==
    <<"!","G","S","T","A","T","U","S",":">>

LTimeTemp ==
    <<"C","u","r","r","e","n","t"," ","T","i","m","e",":"," "," ","7","1","4","6","5"," "," ",
      " "," "," "," "," "," "," "," "," "," ","T","e","m","p","e","r","a","t","u","r","e",":",
      " ","4","1">>

LRxM ==
    <<"P","C","C"," ","R","x","M"," ","R","S","S","I",":"," "," ","-","8","4"," "," "," "," ",
      " "," "," "," "," "," "," "," "," "," ","R","S","R","P"," ","(","d","B","m",")",":"," ",
      " ","-","1","1","3">>

LRxD ==
    <<"P","C","C"," ","R","x","D"," ","R","S","S","I",":"," "," ","-","8","4"," "," "," "," ",
      " "," "," "," "," "," "," "," "," "," ","R","S","R","P"," ","(","d","B","m",")",":"," ",
      " ","-","1","1","1">>

LRSRP ==
    <<"R","S","R","P"," ","(","d","B","m",")",":"," "," ","-","1","0","0">>

LRSRPNoValue ==
    <<"R","S","R","P"," ","(","d","B","m",")",":">>

LRSRPBad ==
    <<"R","S","R","P"," ","(","d","B","m",")",":"," "," ","n","/","a"," ","d","B","m">>

LNoPairs ==
    <<"f","o","o">>

LThreePairs ==
    <<"f","o","o",":"," ","b","a","r"," ","b","a","r",":"," ","b","a","z"," ","b","a","z",":",
      " ","q","u","x">>

LTxPowerTAC ==
    <<"T","x"," ","P","o","w","e","r",":"," "," "," "," "," "," ","-","-"," "," "," "," "," ",
      " "," "," "," "," "," "," "," "," "," ","T","A","C",":"," "," "," "," "," "," "," "," ",
      " ","B","E","E","F"," ","(","1","2","3","4","5",")">>

LTwoBad ==
    <<"R","e","s","e","t"," ","C","o","u","n","t","e","r",":"," ","x"," "," "," "," "," "," ",
      " "," "," "," "," "," "," "," "," "," ","T","e","m","p","e","r","a","t","u","r","e",":",
      " ","h","o","t">>

LNoValue ==
    <<"T","e","m","p","e","r","a","t","u","r","e",":">>

LUnknown ==
    <<"f","o","o",":"," ","b","a","r">>

LEMM ==
    <<"E","M","M"," ","s","t","a","t","e",":"," "," "," "," "," ","R","e","g","i","s","t","e",
      "r","e","d"," "," "," "," "," "," "," ","N","o","r","m","a","l"," ","S","e","r","v","i",
      "c","e">>

LSINR ==
    <<"S","I","N","R"," ","(","d","B",")",":"," "," "," "," "," "," ","0",".","6">>

LTempTAC ==
    <<"T","e","m","p","e","r","a","t","u","r","e",":"," ","4","1"," "," "," "," "," "," "," ",
      " "," "," "," "," "," "," "," ","T","A","C",":"," "," "," "," "," "," "," "," "," ","B",
      "E","E","F"," ","(","1","2","3","4","5",")">>

LModeTAC ==
    <<"M","o","d","e",":"," ","L","O","W"," ","P","O","W","E","R"," ","T","A","C",":"," ","B",
      "E","E","F">>

LKeyKey ==
    <<"f","o","o",":"," ","b","a","r",":">>

IManufacturer ==
    <<"M","a","n","u","f","a","c","t","u","r","e","r",":"," ","h","u","a","w","e","i">>

IMalformed ==
    <<"M","a","n","u","f","a","c","t","u","r","e","r">>

IIMEISV ==
    <<"I","M","E","I"," ","S","V",":"," ","2","0">>

IBadIMEISV ==
    <<"I","M","E","I"," ","S","V",":"," ","n","o","t","a","n","u","m","b","e","r">>

IGCAP ==
    <<"+","G","C","A","P",":"," ","+","C","G","S","M",",","+","D","S",",","+","E","S">>

IRevision ==
    <<"R","e","v","i","s","i","o","n",":"," ","r","8","2","0","9"," ","2","0","1","9","/","0",
      "8","/","2","8"," ","2","0",":","5","9",":","3","0">>

VFoo ==
    <<"f","o","o">>

V41 ==
    <<"4","1">>

VNeg135 ==
    <<"-","1","3",".","5">>

V5 ==
    <<"5">>

VMHz ==
    <<"M","H","z">>

VPad20 ==
    <<" ","2","0"," ">>

VTAC ==
    <<"B","E","E","F"," ","(","1","2","3","4","5",")">>

VLow ==
    <<"L","O","W">>

(***************************************************************************)
(* The state: one call of Device.Info, of Device.Status, or the life of    *)
(* one valueParser.                                                        *)
(***************************************************************************)
VARIABLES
    op,      \* the operation: "Info", "Status" or "valueParser"
    lines,   \* ss of Info / Status: the lines d.d.Command returned
    cmdErr,  \* err of Info / Status: the error d.d.Command returned
    pc,      \* where the operation is: "call", "loop", "second", "use", "done"
    li,      \* the line of the loop of parseInfo / parseStatus (i + 1)
    s,       \* var s Status of parseStatus
    info,    \* var i Info of parseInfo
    ret,     \* what Info / Status returned: [rec, err]
    args,    \* the slice given to newValueParser
    vp,      \* the valueParser constructed from args
    out,     \* the last method called on vp and what it returned
    ncalls   \* the number of methods called on vp

vars == <<op, lines, cmdErr, pc, li, s, info, ret, args, vp, out, ncalls>>

\* The nil *Info / *Status.
Nil == [nil |-> TRUE]

\* No call has returned yet.
NoRet == [rec |-> Nil, err |-> [kind |-> "not returned"]]

\* No method has been called yet.
NoOut == [fn |-> "none", v |-> 0]

\* A failure of the transport (the err of d.d.Command).
ErrTransport == [kind |-> "transport"]

\* The lines a status response is made of.
StatusLines ==
    {LHeader, LTimeTemp, LRxM, LRxD, LRSRP, LRSRPNoValue, LRSRPBad, LNoPairs,
     LThreePairs, LTxPowerTAC, LTwoBad, LNoValue, LUnknown, LEMM, LSINR,
     LTempTAC, LModeTAC, LKeyKey}

\* The first lines of a status response: the header the device sends, and
\* lines that are no header.
FirstLines == {LHeader, LTimeTemp, LNoPairs, LRxM}

\* The lines an info response is made of.
InfoLines == {IManufacturer, IMalformed, IIMEISV, IBadIMEISV, IGCAP, IRevision}

\* The slices a valueParser is constructed from.
ValueInputs ==
    {<<>>, <<VFoo>>, <<V41>>, <<VNeg135>>, <<V5, VMHz>>, <<VPad20>>, <<VFoo, V41>>}

\* The sequences over S of length 0..n.
SeqUpTo(S, n) == UNION {[1..k -> S] : k \in 0..n}

\* The responses to "I": up to MaxLines lines.
InfoResponses == SeqUpTo(InfoLines, MaxLines)

\* The responses to "!GSTATUS?": none, or a first line and up to
\* MaxLines - 1 more.
StatusResponses ==
    {<<>>} \cup {<<h>> \o b : h \in FirstLines, b \in SeqUpTo(StatusLines, MaxLines - 1)}

\* The state as d.d.Command returns to operation o with one of Responses,
\* or with an error and no lines.
InitCall(o, Responses) ==
    /\ op = o
    /\ cmdErr \in {NoErr, ErrTransport}
    /\ lines \in IF cmdErr # NoErr THEN {<<>>} ELSE Responses
    /\ pc = "call"
    /\ li = 0
    /\ s = ZeroStatus
    /\ info = ZeroInfo
    /\ ret = NoRet
    /\ args = <<>>
    /\ vp = NilVP
    /\ out = NoOut
    /\ ncalls = 0

InitValueParser ==
    /\ op = "valueParser"
    /\ cmdErr = NoErr
    /\ lines = <<>>
    /\ pc = "call"
    /\ li = 0
    /\ s = ZeroStatus
    /\ info = ZeroInfo
    /\ ret = NoRet
    /\ args \in ValueInputs
    /\ vp = NilVP
    /\ out = NoOut
    /\ ncalls = 0

Init ==
    \/ InitCall("Info", InfoResponses)
    \/ InitCall("Status", StatusResponses)
    \/ InitValueParser

\* return r, err from Info / Status.
Return(r, e) ==
    /\ pc' = "done"
    /\ ret' = [rec |-> r, err |-> e]

(***************************************************************************)
(* Device.Status and parseStatus.                                          *)
(***************************************************************************)
\* The tokens of the line the loop is at: ss := strings.Fields(l).
LineFields == Fields(lines[li])

\* The split one element early: indices[0] + 1.
SplitAt_OneEarly(ss) == Indices(ss)[1]

\* The split before the last token of the second key: indices[1] - 1.
SplitAt_BeforeSecondKey(ss) == Indices(ss)[2] - 1

\* next := indices[0] + 2, as a count of elements of ss.
SplitAt(ss) == Indices(ss)[1] + 1

\* switch len(indices): the number of key/value pairs of the line.
PairCount(ss) == Len(Indices(ss))

\* The skip at the second line instead of the first.
IsHeader_Second(i) == i = 2

\* if i == 0 of parseStatus: the line that is skipped as the header.
IsHeader(i) == i = 1

\* Device.Status without the check of len(ss).
StatusCall_NoLenCheck ==
    /\ op = "Status" /\ pc = "call"
    /\ IF cmdErr # NoErr
       THEN Return(Nil, cmdErr) /\ UNCHANGED <<li, s>>
       ELSE pc' = "loop" /\ li' = 1 /\ s' = ZeroStatus /\ UNCHANGED ret
    /\ UNCHANGED <<op, lines, cmdErr, info, args, vp, out, ncalls>>

\* Device.Status up to the call of parseStatus.
StatusCall ==
    /\ op = "Status" /\ pc = "call"
    /\ IF cmdErr # NoErr
       THEN Return(Nil, cmdErr) /\ UNCHANGED <<li, s>>
       ELSE IF Len(lines) = 0
            THEN Return(Nil, ErrEmptyStatus) /\ UNCHANGED <<li, s>>
            ELSE pc' = "loop" /\ li' = 1 /\ s' = ZeroStatus /\ UNCHANGED ret
    /\ UNCHANGED <<op, lines, cmdErr, info, args, vp, out, ncalls>>

\* The iteration of parseStatus that skips the response header.
StatusSkipHeader ==
    /\ op = "Status" /\ pc = "loop" /\ li <= Len(lines)
    /\ IsHeader(li)
    /\ li' = li + 1
    /\ UNCHANGED <<op, lines, cmdErr, pc, s, info, ret, args, vp, out, ncalls>>

\* AfterParse with the error of s.parse dropped.
AfterParse_IgnoreError(r, nextpc, nextli) ==
    /\ s' = r.s
    /\ pc' = nextpc /\ li' = nextli /\ UNCHANGED ret

\* if err := s.parse(...); err != nil { return nil, err }: r is what parse
\* gave; without an error parseStatus goes on at nextpc with line nextli.
AfterParse(r, nextpc, nextli) ==
    /\ s' = r.s
    /\ IF r.err # NoErr
       THEN Return(Nil, r.err) /\ UNCHANGED li
       ELSE pc' = nextpc /\ li' = nextli /\ UNCHANGED ret

\* case 1: a single key/value pair on the line.
StatusLineOne ==
    /\ op = "Status" /\ pc = "loop" /\ li <= Len(lines)
    /\ ~IsHeader(li)
    /\ PairCount(LineFields) = 1
    /\ AfterParse(Status_parse(s, LineFields), "loop", li + 1)
    /\ UNCHANGED <<op, lines, cmdErr, info, args, vp, out, ncalls>>

\* case 2, s.parse(ss[:next]): the first of two key/value pairs.
StatusLineFirst ==
    /\ op = "Status" /\ pc = "loop" /\ li <= Len(lines)
    /\ ~IsHeader(li)
    /\ PairCount(LineFields) = 2
    /\ AfterParse(Status_parse(s, Take(LineFields, SplitAt(LineFields))), "second", li)
    /\ UNCHANGED <<op, lines, cmdErr, info, args, vp, out, ncalls>>

\* case 2, s.parse(ss[next:]): the second of two key/value pairs.
StatusLineSecond ==
    /\ op = "Status" /\ pc = "second"
    /\ AfterParse(Status_parse(s, Drop(LineFields, SplitAt(LineFields))), "loop", li + 1)
    /\ UNCHANGED <<op, lines, cmdErr, info, args, vp, out, ncalls>>

\* default: a line with no key/value pair, or with more than two.
StatusLineDefault ==
    /\ op = "Status" /\ pc = "loop" /\ li <= Len(lines)
    /\ ~IsHeader(li)
    /\ PairCount(LineFields) \notin {1, 2}
    /\ Return(Nil, ErrStatusLine(PairCount(LineFields), lines[li]))
    /\ UNCHANGED <<op, lines, cmdErr, li, s, info, args, vp, out, ncalls>>

\* return &s, nil at the end of parseStatus.
StatusReturn ==
    /\ op = "Status" /\ pc = "loop" /\ li > Len(lines)
    /\ Return(s, NoErr)
    /\ UNCHANGED <<op, lines, cmdErr, li, s, info, args, vp, out, ncalls>>

(***************************************************************************)
(* Device.Info and parseInfo.                                              *)
(***************************************************************************)
\* Device.Info up to the call of parseInfo.
InfoCall ==
    /\ op = "Info" /\ pc = "call"
    /\ IF cmdErr # NoErr
       THEN Return(Nil, cmdErr) /\ UNCHANGED <<li, info>>
       ELSE IF Len(lines) = 0
            THEN Return(Nil, ErrEmptyInfo) /\ UNCHANGED <<li, info>>
            ELSE pc' = "loop" /\ li' = 1 /\ info' = ZeroInfo /\ UNCHANGED ret
    /\ UNCHANGED <<op, lines, cmdErr, s, args, vp, out, ncalls>>

\* The end of an iteration of parseInfo: r is what the loop body gave.
AfterInfoLine(r) ==
    /\ info' = r.i
    /\ IF r.err # NoErr
       THEN Return(Nil, r.err) /\ UNCHANGED li
       ELSE li' = li + 1 /\ UNCHANGED <<pc, ret>>

\* One iteration of the loop of parseInfo.
InfoLine ==
    /\ op = "Info" /\ pc = "loop" /\ li <= Len(lines)
    /\ AfterInfoLine(ParseInfoLine(info, lines[li]))
    /\ UNCHANGED <<op, lines, cmdErr, s, args, vp, out, ncalls>>

\* return &i, nil at the end of parseInfo.
InfoReturn ==
    /\ op = "Info" /\ pc = "loop" /\ li > Len(lines)
    /\ Return(info, NoErr)
    /\ UNCHANGED <<op, lines, cmdErr, li, s, info, args, vp, out, ncalls>>

(***************************************************************************)
(* A valueParser and the calls of its methods, in any order.               *)
(***************************************************************************)
\* The caller of newValueParser, which gave c: it uses c.vp when c.err is nil.
Constructed(c) ==
    /\ vp' = c.vp
    /\ IF c.err # NoErr
       THEN Return(Nil, c.err)
       ELSE pc' = "use" /\ UNCHANGED ret

\* vp, err := newValueParser(args).
NewValueParser ==
    /\ op = "valueParser" /\ pc = "call"
    /\ Constructed(newValueParser(args))
    /\ UNCHANGED <<op, lines, cmdErr, li, s, info, args, out, ncalls>>

\* A method call on vp: the parser after it and the value it returned.
Call(fn, r) ==
    /\ op = "valueParser" /\ pc = "use" /\ ncalls < MaxCalls
    /\ vp' = r.vp
    /\ out' = [fn |-> fn, v |-> r.v]
    /\ ncalls' = ncalls + 1
    /\ UNCHANGED <<op, lines, cmdErr, pc, li, s, info, ret, args>>

\* vp.Int().
CallInt == Call("Int", valueParser_Int(vp))

\* vp.Float64().
CallFloat64 == Call("Float64", valueParser_Float64(vp))

\* vp.String().
CallString == Call("String", valueParser_String(vp))

\* vp.Err().
CallErr == Call("Err", [vp |-> vp, v |-> valueParser_Err(vp)])

Next ==
    \/ StatusCall
    \/ StatusSkipHeader
    \/ StatusLineOne
    \/ StatusLineFirst
    \/ StatusLineSecond
    \/ StatusLineDefault
    \/ StatusReturn
    \/ InfoCall
    \/ InfoLine
    \/ InfoReturn
    \/ NewValueParser
    \/ CallInt
    \/ CallFloat64
    \/ CallString
    \/ CallErr

Spec == Init /\ [][Next]_vars

(***************************************************************************)
(* What the properties below read off a state of parseStatus.              *)
(***************************************************************************)
\* Token t ends in a colon.
EndsInColon(t) == t # <<>> /\ t[Len(t)] = ":"

\* The positions of the tokens of seg that end in a colon.
KeyEnds(seg) == {i \in 1..Len(seg) : EndsInColon(seg[i])}

\* The number of tokens of line l that end in a colon.
ColonTokens(l) == Cardinality(KeyEnds(Fields(l)))

\* seg holds exactly one key.
SinglePair(seg) == Cardinality(KeyEnds(seg)) = 1

\* The position of the first token of seg that ends in a colon.
KeyPos(seg) == CHOOSE i \in KeyEnds(seg) : \A j \in KeyEnds(seg) : i <= j

\* The key of seg: its tokens up to the first one that ends in a colon,
\* joined by single spaces.
SegKey(seg) == Join(Take(seg, KeyPos(seg)), <<" ">>)

\* The value tokens of seg: those after its key.
SegVals(seg) == Drop(seg, KeyPos(seg))

\* The segments line l is cut into: the line for one key, the tokens up to
\* the one after the first key and the rest for two keys.
SegsOfLine(l) ==
    IF ColonTokens(l) = 1 THEN <<Fields(l)>>
    ELSE IF ColonTokens(l) = 2
         THEN <<Take(Fields(l), KeyPos(Fields(l)) + 1),
                Drop(Fields(l), KeyPos(Fields(l)) + 1)>>
         ELSE <<>>

\* parseStatus is about to parse a segment.
ParsingSegment ==
    /\ op = "Status"
    /\ \/ pc = "loop" /\ li \in 2..Len(lines) /\ ColonTokens(lines[li]) \in {1, 2}
       \/ pc = "second"

\* The segment parseStatus is about to parse.
CurSegment == SegsOfLine(lines[li])[IF pc = "second" THEN 2 ELSE 1]

RECURSIVE SegsUpTo(_)
\* The segments of lines 2..n, in order.
SegsUpTo(n) == IF n < 2 THEN <<>> ELSE SegsUpTo(n - 1) \o SegsOfLine(lines[n])

\* The segments parseStatus has parsed so far.
DoneSegs ==
    SegsUpTo(li - 1) \o (IF pc = "second" THEN <<SegsOfLine(lines[li])[1]>> ELSE <<>>)

\* seg is a segment of one of the two RSSI keys.
IsRSSI(seg) == SinglePair(seg) /\ SegKey(seg) \in {KPCCRxMRSSI, KPCCRxDRSSI}

\* The RSSI key parsed last, or "" when none was parsed yet.
LastRSSI ==
    IF SelectSeq(DoneSegs, IsRSSI) = <<>> THEN <<>>
    ELSE SegKey(SelectSeq(DoneSegs, IsRSSI)[Len(SelectSeq(DoneSegs, IsRSSI))])

\* parseStatus is about to parse a segment of key k with values.
ParsingKey(k) ==
    /\ ParsingSegment
    /\ SinglePair(CurSegment)
    /\ SegKey(CurSegment) = k

\* Info or Status returned an error and no record.
Failed(r, e) == r = [rec |-> Nil, err |-> e]

(***************************************************************************)
(* C1. In parseStatus the value of every "RSRP (dBm):" segment goes to     *)
(* RSRPRXMdBm when the RSSI key parsed last (on the same or an earlier     *)
(* line) was "PCC RxM RSSI:", and to RSRPRXDdBm when it was                *)
(* "PCC RxD RSSI:"; the other of the two fields keeps its value.           *)
(***************************************************************************)
C1_RSRPFollowsLastRSSI ==
    [][(ParsingKey(KRSRP) /\ SegVals(CurSegment) # <<>>) =>
         /\ LastRSSI = KPCCRxMRSSI =>
              /\ s'.RSRPRXMdBm = Atoi(SegVals(CurSegment)[1]).v
              /\ s'.RSRPRXDdBm = s.RSRPRXDdBm
         /\ LastRSSI = KPCCRxDRSSI =>
              /\ s'.RSRPRXDdBm = Atoi(SegVals(CurSegment)[1]).v
              /\ s'.RSRPRXMdBm = s.RSRPRXMdBm]_vars

\* The two-line sample: -113 went to the RxM field and -111 to the RxD field.
C1_Witness ==
    /\ op = "Status" /\ pc = "done"
    /\ lines = <<LHeader, LRxM, LRxD>>
    /\ ret.err = NoErr
    /\ ret.rec.RSRPRXMdBm = 0 - 113
    /\ ret.rec.RSRPRXDdBm = 0 - 111

(***************************************************************************)
(* C2, as stated. A "RSRP (dBm):" segment parsed while no RSSI segment was *)
(* parsed before it fails the parse with the ambiguity error, whatever its *)
(* value tokens are, and no record is returned.                            *)
(***************************************************************************)
C2_AsStated ==
    [][(ParsingKey(KRSRP) /\ LastRSSI = <<>>) =>
         pc' = "done" /\ Failed(ret', ErrAmbiguousRSRP)]_vars

(***************************************************************************)
(* C2, amended. A "RSRP (dBm):" segment with at least one value token,     *)
(* parsed while no RSSI segment was parsed before it, fails the parse with *)
(* the ambiguity error whatever the value tokens are, and no record is     *)
(* returned. (Without a value token newValueParser fails first.)           *)
(***************************************************************************)
C2_AmbiguousWithValues ==
    [][(ParsingKey(KRSRP) /\ SegVals(CurSegment) # <<>> /\ LastRSSI = <<>>) =>
         pc' = "done" /\ Failed(ret', ErrAmbiguousRSRP)]_vars

\* A RSRP segment whose value is no number failed as ambiguous.
C2_Witness ==
    /\ op = "Status" /\ pc = "done"
    /\ lines = <<LHeader, LUnknown, LRSRPBad>>
    /\ Failed(ret, ErrAmbiguousRSRP)

(***************************************************************************)
(* C3. A line after the header with no token, or with three or more        *)
(* tokens, ending in a colon fails the parse with the line-count error     *)
(* that carries that count and the line, and nothing of the line is parsed *)
(* or assigned; a line with one or two such tokens never gives that error. *)
(***************************************************************************)
C3_SegmentCount ==
    [][(op = "Status" /\ pc \in {"loop", "second"} /\ li \in 2..Len(lines)) =>
         IF ColonTokens(lines[li]) \in {1, 2}
         THEN ret'.err.kind # ErrStatusLine(0, <<>>).kind
         ELSE /\ pc' = "done"
              /\ Failed(ret', ErrStatusLine(ColonTokens(lines[li]), lines[li]))
              /\ s' = s]_vars

\* The test's line of three pairs failed with count 3, after a good line.
C3_Witness ==
    /\ op = "Status" /\ pc = "done"
    /\ lines = <<LHeader, LTimeTemp, LThreePairs>>
    /\ Failed(ret, ErrStatusLine(3, LThreePairs))
    /\ s.Temperature = 41

(***************************************************************************)
(* C4. parseInfo and parseStatus stop at the first line or segment that    *)
(* fails, in input order (the first segment of a line of two before the    *)
(* second): the call returns that segment's error at once, nothing is      *)
(* parsed after it, and a call returns either a record and no error or an  *)
(* error and no record.                                                    *)
(***************************************************************************)
C4_AbortAtFirstError ==
    [][/\ (ParsingSegment /\ Status_parse(s, CurSegment).err # NoErr) =>
            pc' = "done" /\ Failed(ret', Status_parse(s, CurSegment).err)
       /\ (op = "Info" /\ pc = "loop" /\ li \in 1..Len(lines)
             /\ ParseInfoLine(info, lines[li]).err # NoErr) =>
            pc' = "done" /\ Failed(ret', ParseInfoLine(info, lines[li]).err)
       /\ pc # "done"
       /\ (pc' = "done" /\ op \in {"Info", "Status"}) =>
            \/ ret'.err = NoErr /\ ret'.rec # Nil /\ li' = Len(lines) + 1
            \/ ret'.err # NoErr /\ ret'.rec = Nil]_vars

\* Both segments of the second line are bad, and so is the third line: the
\* error returned is the one of the first segment of the second line.
C4_Witness ==
    /\ op = "Status" /\ pc = "done"
    /\ lines = <<LHeader, LTwoBad, LNoPairs>>
    /\ Failed(ret, NumError("Atoi", <<"x">>))
    /\ li = 2

(***************************************************************************)
(* C5, as stated. A segment whose key is not in the dispatch table is      *)
(* ignored: no error, no field assigned, the disambiguation state          *)
(* unchanged, and the parse goes on with the next segment.                 *)
(***************************************************************************)
C5_AsStated ==
    [][(ParsingSegment /\ SinglePair(CurSegment)
          /\ SegKey(CurSegment) \notin StatusKeys) =>
         s' = s /\ ret' = ret /\ pc' # "done"]_vars

(***************************************************************************)
(* C5, amended. A segment with at least one value token whose key is not   *)
(* in the dispatch table is ignored: no error, no field assigned, the      *)
(* disambiguation state unchanged, and the parse goes on with the next     *)
(* segment. (Without a value token newValueParser fails before the key is  *)
(* looked at.)                                                             *)
(***************************************************************************)
C5_UnknownKeyIgnored ==
    [][(ParsingSegment /\ SinglePair(CurSegment)
          /\ SegKey(CurSegment) \notin StatusKeys
          /\ SegVals(CurSegment) # <<>>) =>
         s' = s /\ ret' = ret /\ pc' # "done"]_vars

\* "foo: bar" after the RxM line: the parse went on to its end, and the
\* record is the one the RxM line left.
C5_Witness ==
    /\ op = "Status" /\ pc = "done"
    /\ lines = <<LHeader, LRxM, LUnknown>>
    /\ ret.err = NoErr
    /\ ret.rec.state = rxmLast
    /\ ret.rec.PCCRXMRSSI = 0 - 84
    /\ ret.rec.RSRPRXMdBm = 0 - 113

(***************************************************************************)
(* C6. parseStatus skips the first line whatever it holds: the first       *)
(* iteration assigns no field, leaves the disambiguation state, raises no  *)
(* error and goes on to line 2 with the Status still at its zero value,    *)
(* so the result is decided by lines 2..n alone.                           *)
(***************************************************************************)
C6_FirstLineSkipped ==
    [][/\ (op = "Status" /\ pc = "loop" /\ li = 1) =>
            s' = s /\ ret' = ret /\ pc' = "loop" /\ li' = 2
       /\ (op = "Status" /\ pc' = "loop" /\ li' = 2) =>
            s' = ZeroStatus /\ ret' = NoRet]_vars

\* The RxM line in the place of the header set no state: the RSRP line
\* after it is ambiguous.
C6_Witness ==
    /\ op = "Status" /\ pc = "done"
    /\ lines = <<LRxM, LRSRP>>
    /\ Failed(ret, ErrAmbiguousRSRP)
    /\ s = ZeroStatus

(***************************************************************************)
(* C7. Once the error of a valueParser is set, every later call of Int,    *)
(* Float64 and String, in any order, returns the zero value of its type,   *)
(* Err returns that same error, and no call clears or replaces it.         *)
(***************************************************************************)
C7_StickyError ==
    [][(op = "valueParser" /\ pc = "use" /\ vp.err # NoErr) =>
         /\ vp'.err = vp.err
         /\ out'.fn = "Int" => out'.v = 0
         /\ out'.fn = "Float64" => out'.v = ZeroFloat
         /\ out'.fn = "String" => out'.v = <<>>
         /\ out'.fn = "Err" => out'.v = vp.err]_vars

\* Int failed on "foo", and a later String returned "".
C7_Witness ==
    /\ op = "valueParser" /\ pc = "use"
    /\ args = <<VFoo, V41>>
    /\ vp.err = NumError("Atoi", VFoo)
    /\ out = [fn |-> "String", v |-> <<>>]
    /\ ncalls = 2

(***************************************************************************)
(* C8. newValueParser returns its error exactly for an empty slice, and    *)
(* otherwise a parser that holds every element, in order (each trimmed of  *)
(* surrounding space, so unchanged when it has none); so a status segment  *)
(* whose key is followed by no value token fails the parse with that       *)
(* error, whether the key is in the dispatch table or not.                 *)
(***************************************************************************)
C8_EmptyInput ==
    [][/\ (op = "valueParser" /\ pc = "call") =>
            IF args = <<>>
            THEN pc' = "done" /\ Failed(ret', ErrNoValues)
            ELSE /\ pc' = "use" /\ ret' = ret
                 /\ vp'.err = NoErr
                 /\ Len(vp'.ss) = Len(args)
                 /\ \A i \in 1..Len(args) :
                      /\ vp'.ss[i] = TrimSpace(args[i])
                      /\ (~IsSpace(args[i][1]) /\ ~IsSpace(args[i][Len(args[i])])) =>
                           vp'.ss[i] = args[i]
       /\ (ParsingSegment /\ SinglePair(CurSegment) /\ SegVals(CurSegment) = <<>>) =>
            pc' = "done" /\ Failed(ret', ErrNoValues)]_vars

\* "Temperature:" alone, a key of the table without a value, failed the parse.
C8_Witness ==
    /\ op = "Status" /\ pc = "done"
    /\ lines = <<LHeader, LTimeTemp, LNoValue>>
    /\ Failed(ret, ErrNoValues)

(***************************************************************************)
(* C9. When the transport returns no line, Info and Status return their    *)
(* empty-response error and no record.                                     *)
(***************************************************************************)
C9_EmptyResponse ==
    (pc = "done" /\ cmdErr = NoErr /\ lines = <<>>) =>
        /\ op = "Info" => Failed(ret, ErrEmptyInfo)
        /\ op = "Status" => Failed(ret, ErrEmptyStatus)

\* Status returned on an empty response.
C9_Witness ==
    /\ op = "Status" /\ pc = "done"
    /\ cmdErr = NoErr /\ lines = <<>>
    /\ Failed(ret, ErrEmptyStatus)

(***************************************************************************)
(* C10, as stated. Given the line                                          *)
(* "Current Time:  71465   Temperature: 41" as its whole line sequence,    *)
(* the status parser returns a record with the current time 71465 seconds  *)
(* (19h51m5s) and the temperature 41.                                      *)
(***************************************************************************)
C10_AsStated ==
    (op = "Status" /\ pc = "done" /\ lines = <<LTimeTemp>>) =>
        /\ ret.err = NoErr
        /\ ret.rec.CurrentTime = 71465 * Second
        /\ ret.rec.CurrentTime = 19 * Hour + 51 * Minute + 5 * Second
        /\ ret.rec.Temperature = 41

(***************************************************************************)
(* C10, amended. Given a first line (which is skipped as the header) and   *)
(* then the line "Current Time:  71465   Temperature: 41", the status      *)
(* parser returns a record with the current time 71465 seconds (19h51m5s)  *)
(* and the temperature 41.                                                 *)
(***************************************************************************)
C10_TimeAndTemperature ==
    (op = "Status" /\ pc = "done" /\ Len(lines) = 2 /\ lines[2] = LTimeTemp) =>
        /\ ret.err = NoErr
        /\ ret.rec.CurrentTime = 71465 * Second
        /\ ret.rec.CurrentTime = 19 * Hour + 51 * Minute + 5 * Second
        /\ ret.rec.Temperature = 41

\* The response of the test cut after its second line.
C10_Witness ==
    /\ op = "Status" /\ pc = "done"
    /\ lines = <<LHeader, LTimeTemp>>
    /\ ret.err = NoErr
    /\ ret.rec.CurrentTime = 71465 * Second
    /\ ret.rec.Temperature = 41

\* Lines of the sample of TestDeviceStatus.
SampleLines == {LTimeTemp, LRxM, LRxD, LTxPowerTAC, LEMM, LSINR}

(***************************************************************************)
(* C11. Status succeeds on a response in the table format of the test's    *)
(* MC7455 sample: the header, then lines of one or two key/value pairs     *)
(* with a value for every key, among them the line of Current Time and     *)
(* Temperature and the line "Tx Power: --" with the device's placeholder   *)
(* for an integer; the record has the current time 71465 s and the         *)
(* temperature 41, and there is no error.                                  *)
(***************************************************************************)
C11_SampleSucceeds ==
    (/\ op = "Status" /\ pc = "done" /\ cmdErr = NoErr
     /\ Len(lines) >= 2
     /\ lines[1] = LHeader
     /\ lines[2] = LTimeTemp
     /\ \A i \in 3..Len(lines) : lines[i] \in SampleLines) =>
        /\ ret.err = NoErr
        /\ ret.rec # Nil
        /\ ret.rec.CurrentTime = 19 * Hour + 51 * Minute + 5 * Second
        /\ ret.rec.Temperature = 41

(***************************************************************************)
(* What the properties below read off a line of parseInfo.                 *)
(***************************************************************************)
\* Line l holds a colon.
HasColon(l) == \E i \in 1..Len(l) : l[i] = ":"

\* The position of the first colon of l.
FirstColon(l) == CHOOSE i \in 1..Len(l) : l[i] = ":" /\ \A j \in 1..(i - 1) : l[j] # ":"

\* The text of l before its first colon.
BeforeColon(l) == SubSeq(l, 1, FirstColon(l) - 1)

\* The text of l after its first colon.
AfterColon(l) == SubSeq(l, FirstColon(l) + 1, Len(l))

\* The key of the info table that fills the string field f of Info.
InfoKeyOf(f) ==
    CASE f = "Manufacturer" -> KManufacturer
      [] f = "Model" -> KModel
      [] f = "Revision" -> KRevision
      [] f = "IMEI" -> KIMEI
      [] f = "MEID" -> KMEID
      [] f = "FSN" -> KFSN

\* The value the test expects of the Revision line, from "r8209" on.
VRevision ==
    <<"r","8","2","0","9"," ","2","0","1","9","/","0","8","/","2","8"," ","2","0",":","5","9",
      ":","3","0">>

(***************************************************************************)
(* C12. parseInfo fails with the malformed-line error exactly for a line   *)
(* without a colon; a line with one or more colons is cut at its first     *)
(* colon only: the key is the text before it and the value all the text    *)
(* after it, later colons included, trimmed of surrounding space.          *)
(***************************************************************************)
C12_SplitAtFirstColon ==
    [][(op = "Info" /\ pc = "loop" /\ li \in 1..Len(lines)) =>
         IF ~HasColon(lines[li])
         THEN pc' = "done" /\ Failed(ret', ErrMalformedInfo(lines[li]))
         ELSE /\ ret'.err.kind # ErrMalformedInfo(<<>>).kind
              /\ \A f \in {"Manufacturer", "Model", "Revision", "IMEI", "MEID", "FSN"} :
                   IF BeforeColon(lines[li]) = InfoKeyOf(f)
                   THEN info'[f] = TrimSpace(AfterColon(lines[li]))
                   ELSE info'[f] = info[f]]_vars

\* The Revision line, whose value ends in "20:59:30", was parsed whole.
C12_Witness ==
    /\ op = "Info" /\ pc = "done"
    /\ lines = <<IManufacturer, IRevision>>
    /\ ret.err = NoErr
    /\ ret.rec.Revision = VRevision

(***************************************************************************)
(* What the properties below read off a line of two keys.                  *)
(***************************************************************************)
\* The position of the second token of f that ends in a colon.
SecondKeyPos(f) == CHOOSE i \in KeyEnds(f) : i # KeyPos(f)

\* parseStatus is at a line after the header that has two keys.
AtTwoKeyLine ==
    /\ op = "Status" /\ pc \in {"loop", "second"}
    /\ li \in 2..Len(lines)
    /\ ColonTokens(lines[li]) = 2

\* The step takes up the result r of a parse: the record of r, and the
\* return of its error or else the move to position nextpc at line nextli.
TakesUp(r, nextpc, nextli) ==
    /\ s' = r.s
    /\ IF r.err # NoErr
       THEN pc' = "done" /\ Failed(ret', r.err)
       ELSE pc' = nextpc /\ li' = nextli

\* The line f of two keys, the first at position p and the second at q
\* (counted from 1), is cut after the token that follows the first key.
CutAfterFirstValue(f, p, q) ==
    /\ p + 1 <= Len(f)
    /\ pc = "loop" => TakesUp(Status_parse(s, SubSeq(f, 1, p + 1)), "second", li)
    /\ pc = "second" =>
         TakesUp(Status_parse(s, SubSeq(f, p + 2, Len(f))), "loop", li + 1)
    /\ (pc = "second" /\ q >= p + 2) =>
         TakesUp(WithParser(s, Join(SubSeq(f, p + 2, q), <<" ">>),
                            newValueParser(SubSeq(f, q + 1, Len(f)))),
                 "loop", li + 1)

(***************************************************************************)
(* C13. A line of parseStatus with two tokens that end in a colon, at      *)
(* positions p < q, is cut after the token that follows the first key: the *)
(* tokens up to there are parsed first and the rest second; the cut is     *)
(* within the line; when the second key ends at or after the cut, its key  *)
(* is the tokens from the cut to q joined by single spaces and its value   *)
(* all the tokens after q.                                                 *)
(***************************************************************************)
C13_CutAtFirstKeyPlusTwo ==
    [][AtTwoKeyLine =>
         CutAfterFirstValue(Fields(lines[li]), KeyPos(Fields(lines[li])),
                            SecondKeyPos(Fields(lines[li])))]_vars

\* A second key of two tokens and a second value of two tokens were parsed.
C13_Witness ==
    /\ op = "Status" /\ pc = "done"
    /\ lines = <<LHeader, LRxM, LTempTAC>>
    /\ ret.err = NoErr
    /\ ret.rec.RSRPRXMdBm = 0 - 113
    /\ ret.rec.Temperature = 41
    /\ ret.rec.TAC = VTAC

\* The second key of line f, which ends at position q, is a key of the
\* status table that begins at position j.
KnownKeyFrom(f, j, q) == Join(SubSeq(f, j, q), <<" ">>) \in StatusKeys

\* The line f of two keys, at positions p and q, breaks the assumption of
\* the cut: no value token follows the first key, or two or more do before
\* the second key begins.
BreaksCut(f, p, q) ==
    \/ q = p + 1
    \/ \E j \in (p + 3)..q : KnownKeyFrom(f, j, q)

(***************************************************************************)
(* C14. A line of parseStatus with two keys that breaks the assumption of  *)
(* the cut (the first key is followed by no value token, or by two or more *)
(* before the second key begins) ends the parse with an error at that      *)
(* line; no part of the line is parsed with a value token taken into the   *)
(* second key.                                                             *)
(***************************************************************************)
C14_BrokenCutFlagged ==
    [][(AtTwoKeyLine /\ pc = "loop"
        /\ BreaksCut(Fields(lines[li]), KeyPos(Fields(lines[li])),
                     SecondKeyPos(Fields(lines[li])))) =>
         pc' = "done" /\ ret'.rec = Nil /\ ret'.err # NoErr]_vars

\* The state that goes with the RSSI key parsed last.
StateOf(k) ==
    CASE k = KPCCRxMRSSI -> rxmLast
      [] k = KPCCRxDRSSI -> rxdLast
      [] OTHER -> stateUnset

(***************************************************************************)
(* C15. While a call of parseStatus goes on, and when it has returned a    *)
(* record, the state of the Status is unset as long as no RSSI key was     *)
(* parsed in that call, rxmLast when the RSSI key parsed last was          *)
(* "PCC RxM RSSI:" and rxdLast when it was "PCC RxD RSSI:": every call     *)
(* starts unset, only the two RSSI keys change the state, every other key  *)
(* (the RSRP key and unknown keys too) leaves it, and it never goes back   *)
(* to unset.                                                               *)
(***************************************************************************)
C15_StateFollowsRSSI ==
    (/\ op = "Status"
     /\ \/ pc \in {"loop", "second"}
        \/ pc = "done" /\ ret.err = NoErr) =>
        s.state = StateOf(LastRSSI)

\* The state went from unset to rxdLast and on to rxmLast, past two RSRP keys.
C15_Witness ==
    /\ op = "Status" /\ pc = "done"
    /\ lines = <<LHeader, LRxD, LRxM>>
    /\ ret.err = NoErr
    /\ ret.rec.state = rxmLast
    /\ ret.rec.RSRPRXDdBm = 0 - 111
====
